---- MODULE Spec2Model ----
(***************************************************************************)
(* Model of the retrieval-augmented question-answering backend:            *)
(*   groq_llm.py   gemini_call, answer_question (generation client)        *)
(*   main.py       try_answer_with_retry, hackrx_run (retry and batch),    *)
(*                 hybrid_search, verify_token and the HTTP surface        *)
(*   vector_db.py  _split_text, add_document, delete_document,             *)
(*                 search_similar (chunker and index)                      *)
(*                                                                         *)
(* Strings are kept exactly, in run-length form: a string is a sequence of *)
(* runs [c |-> character, n |-> repetitions], no run empty and no two      *)
(* adjacent runs of the same character, so that equality of the encodings  *)
(* is equality of the strings and texts of several thousand characters     *)
(* (the program's budgets are 1000, 3500 and 4000 characters) stay small.  *)
(***************************************************************************)
EXTENDS Integers, Sequences, FiniteSets, TLC

VARIABLES
    \* ---- try_answer_with_retry (main.py) and what it calls
    pc,         \* position of try_answer_with_retry: idle, attempt, sleep, returned
                \* (called: a direct gemini_call has returned)
    args,       \* its arguments: context, question, max_retries
    attempt,    \* loop variable `attempt`
    backoff,    \* local `backoff`
    sleeps,     \* the asyncio.sleep(backoff) durations taken by this run, in order
    posts,      \* number of requests.post invocations made by this run
    tries,      \* number of answer_question calls the run has made
    backend,    \* the mock backend's script: outcome of the 1st, 2nd, ... POST
    result,     \* what the run returned (or raised)
    sent,       \* the prompts transmitted to the backend by this run, in order
    direct,     \* record of the last direct gemini_call(prompt)
    \* ---- hackrx_run (main.py)
    hpc,        \* position of the handler: idle, loop, awaiting, delay, responded
    questions,  \* request_data.questions
    qi,         \* index of the question being processed
    answers,    \* local `answers`
    doctext,    \* local `text`, the extracted document text
    download,   \* how the download and extraction went: none, ok, not200, error
    response,   \* the HTTP response of the handler
    trace,      \* what the handler has done so far for which question:
                \* attempt (an answer_question call), answer (appended), delay
    \* ---- _split_text (vector_db.py)
    spc,        \* position of _split_text: idle, loop, returned
    sargs,      \* its arguments: text, chunk_size, overlap
    start,      \* local `start`
    chunks,     \* local `chunks`
    windows,    \* the <<start, end>> of every slice text[start:end] taken so far
    spans,      \* for every chunk emitted, the <<first, past-last>> positions of
                \* the text that it holds (the slice less the stripped whitespace)
    iters,      \* number of loop iterations made
    \* ---- VectorDatabase (vector_db.py)
    collection, \* the ChromaDB collection: sequence of [id, document]
    nextId,     \* source of fresh uuid4 values
    lastAdd,    \* record of the last add_document call
    lastDelete, \* record of the last DELETE /vector/document/{doc_id}
    lastSearch, \* record of the last POST /hybrid/search
    \* ---- the HTTP surface (main.py)
    tuner,      \* fine_tuner.model: none or loaded
    http        \* record of the last request: endpoint, header, status, ran

genVars   == <<pc, args, attempt, backoff, sleeps, posts, tries, backend, result, sent, direct>>
batchVars == <<hpc, questions, qi, answers, doctext, download, response, trace>>
splitVars == <<spc, sargs, start, chunks, windows, spans, iters>>
indexVars == <<collection, nextId, lastAdd, lastDelete, lastSearch>>
httpVars  == <<tuner, http>>
vars      == <<genVars, batchVars, splitVars, indexVars, httpVars>>

----------------------------------------------------------------------------
(* Python str, run-length encoded *)

Whitespace == {" ", "\n"}

\* c * n
Rep(c, n) == IF n <= 0 THEN <<>> ELSE <<[c |-> c, n |-> n]>>

\* s + t
Cat(s, t) ==
    IF s = <<>> THEN t
    ELSE IF t = <<>> THEN s
    ELSE IF s[Len(s)].c = t[1].c
         THEN SubSeq(s, 1, Len(s) - 1)
              \o <<[c |-> t[1].c, n |-> s[Len(s)].n + t[1].n]>>
              \o SubSeq(t, 2, Len(t))
         ELSE s \o t

\* a string literal, given character by character
RECURSIVE LitFrom(_, _, _)
LitFrom(acc, cs, i) ==
    IF i > Len(cs) THEN acc ELSE LitFrom(Cat(acc, Rep(cs[i], 1)), cs, i + 1)

Lit(cs) == LitFrom(<<>>, cs, 1)

RECURSIVE StrLen(_)
StrLen(s) == IF s = <<>> THEN 0 ELSE Head(s).n + StrLen(Tail(s))

\* s[:k] for 0 <= k
RECURSIVE Take(_, _)
Take(s, k) ==
    IF k <= 0 \/ s = <<>> THEN <<>>
    ELSE IF Head(s).n <= k
         THEN <<Head(s)>> \o Take(Tail(s), k - Head(s).n)
         ELSE <<[c |-> Head(s).c, n |-> k]>>

\* s[k:] for 0 <= k
RECURSIVE Drop(_, _)
Drop(s, k) ==
    IF k <= 0 \/ s = <<>> THEN s
    ELSE IF Head(s).n <= k
         THEN Drop(Tail(s), k - Head(s).n)
         ELSE <<[c |-> Head(s).c, n |-> Head(s).n - k]>> \o Tail(s)

\* s[i] for 0 <= i < len(s)
RECURSIVE CharAt(_, _)
CharAt(s, i) ==
    IF i < Head(s).n THEN Head(s).c ELSE CharAt(Tail(s), i - Head(s).n)

RECURSIVE LStrip(_)
LStrip(s) == IF s # <<>> /\ Head(s).c \in Whitespace THEN LStrip(Tail(s)) ELSE s

RECURSIVE RStrip(_)
RStrip(s) ==
    IF s # <<>> /\ s[Len(s)].c \in Whitespace
    THEN RStrip(SubSeq(s, 1, Len(s) - 1))
    ELSE s

\* s.strip()
Strip(s) == RStrip(LStrip(s))

\* a slice index as Python clamps it: negative counts from the end
PyIndex(s, i) ==
    LET n == StrLen(s)
    IN  IF i < 0 THEN (IF n + i < 0 THEN 0 ELSE n + i)
        ELSE IF i > n THEN n ELSE i

\* s[a:b]
PySlice(s, a, b) ==
    LET lo == PyIndex(s, a)
        hi == PyIndex(s, b)
    IN  IF hi <= lo THEN <<>> ELSE Take(Drop(s, lo), hi - lo)

\* s.endswith(t)
EndsWith(s, t) ==
    /\ StrLen(s) >= StrLen(t)
    /\ Drop(s, StrLen(s) - StrLen(t)) = t

----------------------------------------------------------------------------
(* groq_llm.py: the generation client *)

PromptBudget  == 4000
ContextBudget == 3500

Return(v)   == [tag |-> "return", val |-> v, has429 |-> FALSE]
\* an exception of class e; has429 is whether "429" occurs in str(exception)
Raise(e, h) == [tag |-> "raise", val |-> e, has429 |-> h]

ErrEmptyPrompt == "Error: Empty prompt provided."
ErrFormat      == "Error: Unexpected API response format."
ErrRequest     == "Error: API request failed"
ErrRequired    == "Error: Context and question are required."
GeneratedText  == "generated text"

(* What one requests.post can bring back.
   Transport and status failures (requests.RequestException):
     timeout, connection_error, http429, http500
   Status 200 with a body:
     ok                the expected shape, text a string
     no_candidates     a JSON object without the key 'candidates' (or without
                       'content', 'parts', 'text' further down)
     empty_candidates  'candidates' (or 'parts') is the empty list
     null_candidates   'candidates' is null
     text_not_string   'text' is a number
     not_object        the body is a JSON array
     bad_json          the body is no JSON; requests >= 2.27 raises
                       requests.JSONDecodeError, a RequestException
     bad_json_legacy, bad_json_legacy_429
                       the same under requests < 2.27, where r.json() raises a
                       plain ValueError ("Expecting value: line 1 column 1
                       (char 0)"); the _429 variant is a message in which the
                       digits 429 occur ("... (char 429)") *)
RetryableFailures == {"timeout", "connection_error", "http429", "http500"}
DeviantBodies ==
    {"no_candidates", "empty_candidates", "null_candidates", "text_not_string",
     "not_object"}
UndecodableBodies == {"bad_json", "bad_json_legacy", "bad_json_legacy_429"}
Outcomes == {"ok"} \cup RetryableFailures \cup DeviantBodies \cup UndecodableBodies

\* lines 38-45: the POST, raise_for_status, the walk into the body, and the
\* two except clauses
PostAndParse(o) ==
    CASE o = "ok"                  -> Return(GeneratedText)
      [] o \in RetryableFailures   -> Return(ErrRequest)
      [] o = "bad_json"            -> Return(ErrRequest)
      [] o = "no_candidates"       -> Return(ErrFormat)
      [] o = "empty_candidates"    -> Return(ErrFormat)
      [] o = "null_candidates"     -> Raise("TypeError", FALSE)
      [] o = "not_object"          -> Raise("TypeError", FALSE)
      [] o = "text_not_string"     -> Raise("AttributeError", FALSE)
      [] o = "bad_json_legacy"     -> Raise("ValueError", FALSE)
      [] o = "bad_json_legacy_429" -> Raise("ValueError", TRUE)

\* the check without its second half
IsBlankNoStrip(prompt) == prompt = <<>>

\* line 22: not prompt or not prompt.strip()
IsBlank(prompt) == prompt = <<>> \/ Strip(prompt) = <<>>

Ellipsis == Rep(".", 3)

\* lines 26-28
TruncatePrompt(prompt) ==
    LET p == Strip(prompt)
    IN  IF StrLen(p) > PromptBudget THEN Cat(Take(p, PromptBudget), Ellipsis) ELSE p

\* gemini_call(prompt) when the POST, if made, has outcome o:
\* the result, the number of POSTs made and the prompts transmitted
gemini_call(prompt, o) ==
    IF IsBlank(prompt)
    THEN [res |-> Return(ErrEmptyPrompt), posts |-> 0, sent |-> <<>>]
    ELSE [res |-> PostAndParse(o), posts |-> 1, sent |-> <<TruncatePrompt(prompt)>>]

ContextHeader  == Lit(<<"C","o","n","t","e","x","t",":","\n">>)
QuestionHeader == Lit(<<"\n","\n","Q","u","e","s","t","i","o","n",":"," ">>)
AnswerInstruction ==
    Lit(<<"\n","A","n","s","w","e","r"," ","c","o","n","c","i","s","e","l","y"," ",
          "a","n","d"," ","a","c","c","u","r","a","t","e","l","y",":">>)

\* lines 68-70
BuildPrompt(context, question) ==
    Cat(Cat(Cat(Cat(ContextHeader, Take(Strip(context), ContextBudget)),
                QuestionHeader), Strip(question)), AnswerInstruction)

\* answer_question(context, question)
answer_question(context, question, o) ==
    IF context = <<>> \/ question = <<>>
    THEN [res |-> Return(ErrRequired), posts |-> 0, sent |-> <<>>]
    ELSE gemini_call(BuildPrompt(context, question), o)

----------------------------------------------------------------------------
(* main.py: try_answer_with_retry *)

InitialBackoff    == 2
DefaultMaxRetries == 3

SentinelFailed  == "Failed to answer due to rate limiting or internal error."
SentinelUnknown == "Failed to answer due to unknown error."

\* an except clause that lets what it does not retry go on to the caller
OnExceptionReraise(e, att, max_retries) ==
    IF e.has429 /\ att < max_retries THEN "retry" ELSE "raise"

\* an except clause that sleeps after the last attempt as well
OnExceptionRetryLast(e, att, max_retries) ==
    IF e.has429 /\ att <= max_retries THEN "retry" ELSE "sentinel"

\* lines 96-103: what the except clause does with exception e
OnException(e, att, max_retries) ==
    IF e.has429 /\ att < max_retries THEN "retry" ELSE "sentinel"

\* bounds of the inputs
MaxRetriesArg == 3
MaxQuestions  == 2

Contexts ==
    { <<>>,
      Rep(" ", 3),
      Cat(Cat(Rep(" ", 2), Rep("a", 10)), Rep("\n", 1)),
      Rep("a", ContextBudget),
      Cat(Cat(Rep("a", 3000), Rep(".", 1)), Rep("a", 2000)) }

Questions ==
    { <<>>,
      Rep(" ", 1),
      Cat(Cat(Cat(Rep(" ", 1), Rep("a", 8)), Rep("?", 1)), Rep(" ", 2)),
      Cat(Rep("a", 440), Rep("?", 1)),
      Rep("a", 500),
      Rep("a", 5000) }

ScriptOutcomes ==
    {"ok", "timeout", "http429", "http500", "null_candidates", "bad_json_legacy_429"}

Scripts(n) == [1..n -> ScriptOutcomes]

DirectPrompts ==
    { <<>>,
      Rep(" ", 1),
      Cat(Rep(" ", 2), Rep("\n", 1)),
      Rep("a", 1),
      Cat(Cat(Rep(" ", 1), Rep("a", 5)), Rep(" ", 1)),
      Rep("a", PromptBudget),
      Rep("a", PromptBudget + 1),
      Cat(Rep(" ", 10), Rep("a", PromptBudget)) }

NoCall ==
    [called |-> FALSE, prompt |-> <<>>, outcome |-> "ok", res |-> Return(""),
     posts |-> 0, sent |-> <<>>]
NoArgs == [context |-> <<>>, question |-> <<>>, max_retries |-> 0]

\* a direct call gemini_call(prompt)
GeminiDirect ==
    /\ pc = "idle" /\ hpc = "idle"
    /\ pc' = "called"
    /\ \E p \in DirectPrompts, o \in Outcomes :
          LET r == gemini_call(p, o)
          IN  direct' = [called |-> TRUE, prompt |-> p, outcome |-> o,
                         res |-> r.res, posts |-> r.posts, sent |-> r.sent]
    /\ UNCHANGED <<args, attempt, backoff, sleeps, posts, tries, backend, result, sent>>
    /\ UNCHANGED <<batchVars, splitVars, indexVars, httpVars>>

\* lines 90-93: entry of try_answer_with_retry(context, question, max_retries)
\* against a mock backend with script b
Enter(c, q, m, b) ==
    /\ pc' = "attempt"
    /\ args' = [context |-> c, question |-> q, max_retries |-> m]
    /\ attempt' = 1
    /\ backoff' = InitialBackoff
    /\ sleeps' = <<>>
    /\ posts' = 0
    /\ tries' = 0
    /\ sent' = <<>>
    /\ backend' = b
    /\ result' = Return("")

RetryStart ==
    /\ pc = "idle" /\ hpc = "idle"
    /\ \E c \in Contexts, q \in Questions, m \in 0..MaxRetriesArg :
          \E b \in Scripts(m) : Enter(c, q, m, b)
    /\ UNCHANGED <<direct, batchVars, splitVars, indexVars, httpVars>>

\* lines 93-103: one pass of the loop body, the POST (if made) having outcome o
Attempt(o) ==
    /\ pc = "attempt"
    /\ attempt <= args.max_retries
    /\ LET r == answer_question(args.context, args.question, o)
           h == IF r.res.tag = "return" THEN "return"
                ELSE OnException(r.res, attempt, args.max_retries)
       IN  /\ posts' = posts + r.posts
           /\ tries' = tries + 1
           /\ sent' = sent \o r.sent
           /\ CASE h = "return"   -> pc' = "returned" /\ result' = r.res
                [] h = "retry"    -> pc' = "sleep" /\ result' = result
                [] h = "sentinel" -> pc' = "returned" /\ result' = Return(SentinelFailed)
                [] OTHER          -> pc' = "returned" /\ result' = r.res
    /\ UNCHANGED <<args, attempt, backoff, sleeps, backend, direct>>
    /\ UNCHANGED <<splitVars, indexVars, httpVars>>

\* the attempt of a standalone run, served by the mock backend's script
AttemptScripted ==
    /\ hpc = "idle"
    /\ posts < Len(backend)
    /\ Attempt(backend[posts + 1])
    /\ UNCHANGED batchVars

\* line 104: the loop ran out (only when max_retries <= 0)
LoopExhausted ==
    /\ pc = "attempt"
    /\ attempt > args.max_retries
    /\ pc' = "returned"
    /\ result' = Return(SentinelUnknown)
    /\ UNCHANGED <<args, attempt, backoff, sleeps, posts, tries, backend, sent, direct>>
    /\ UNCHANGED <<batchVars, splitVars, indexVars, httpVars>>

\* lines 99-100 and the next value of the loop variable
BackoffSleep ==
    /\ pc = "sleep"
    /\ sleeps' = Append(sleeps, backoff)
    /\ backoff' = backoff * 2
    /\ attempt' = attempt + 1
    /\ pc' = "attempt"
    /\ UNCHANGED <<args, posts, tries, backend, result, sent, direct>>
    /\ UNCHANGED <<batchVars, splitVars, indexVars, httpVars>>

----------------------------------------------------------------------------
(* main.py: hackrx_run *)

RECURSIVE SeqsUpTo(_, _)
SeqsUpTo(S, n) ==
    IF n = 0 THEN {<<>>}
    ELSE LET shorter == SeqsUpTo(S, n - 1)
         IN  shorter \cup {Append(s, x) : s \in {t \in shorter : Len(t) = n - 1}, x \in S}

BatchTexts == { <<>>, Cat(Cat(Rep(" ", 2), Rep("a", 10)), Rep("\n", 1)) }
BatchQuestions == { <<>>, Cat(Rep("a", 8), Rep("?", 1)), Rep("a", 5000) }

NoResponse == [status |-> 0, answers |-> <<>>]

\* lines 67-78 and the except clause of line 88: download, extraction, and
\* the 500 that any failure of either (the 400 included) is turned into
HackrxRun ==
    /\ hpc = "idle" /\ pc = "idle"
    /\ \E d \in {"ok", "not200", "error"}, t \in BatchTexts,
          qs \in SeqsUpTo(BatchQuestions, MaxQuestions) :
          /\ download' = d
          /\ questions' = qs
          /\ IF d = "ok"
             THEN /\ hpc' = "loop"
                  /\ doctext' = t
                  /\ response' = NoResponse
             ELSE /\ hpc' = "responded"
                  /\ doctext' = <<>>
                  /\ response' = [status |-> 500, answers |-> <<>>]
    /\ qi' = 1
    /\ answers' = <<>>
    /\ trace' = <<>>
    /\ UNCHANGED <<genVars, splitVars, indexVars, httpVars>>

\* lines 81-82 and 86: next question, or the response
HackrxLoop ==
    /\ hpc = "loop"
    /\ IF qi > Len(questions)
       THEN /\ hpc' = "responded"
            /\ response' = [status |-> 200, answers |-> answers]
            /\ UNCHANGED <<genVars>>
       ELSE /\ hpc' = "awaiting"
            /\ Enter(doctext, questions[qi], DefaultMaxRetries, <<>>)
            /\ UNCHANGED <<response, direct>>
    /\ UNCHANGED <<questions, qi, answers, doctext, download, trace>>
    /\ UNCHANGED <<splitVars, indexVars, httpVars>>

\* an attempt made on behalf of the batch, against any backend
AttemptAny ==
    /\ hpc = "awaiting"
    /\ \E o \in Outcomes : Attempt(o)
    /\ trace' = Append(trace, [e |-> "attempt", q |-> qi])
    /\ UNCHANGED <<hpc, questions, qi, answers, doctext, download, response>>

\* a loop body that goes on to the next question without the sleep
AfterAppendNoDelay(tag) == IF tag = "return" THEN "loop" ELSE "responded"

\* lines 82-84 and 88: where the handler goes once try_answer_with_retry is
\* over: to the sleep of line 84, or to the except clause
AfterAppend(tag) == IF tag = "return" THEN "delay" ELSE "responded"

\* line 83, or line 88 when try_answer_with_retry raised
HackrxAppend ==
    /\ hpc = "awaiting" /\ pc = "returned"
    /\ pc' = "idle"
    /\ hpc' = AfterAppend(result.tag)
    /\ IF result.tag = "return"
       THEN /\ answers' = Append(answers, result.val)
            /\ trace' = Append(trace, [e |-> "answer", q |-> qi])
            /\ UNCHANGED response
       ELSE /\ response' = [status |-> 500, answers |-> <<>>]
            /\ UNCHANGED <<answers, trace>>
    /\ UNCHANGED <<args, attempt, backoff, sleeps, posts, tries, backend, result, sent, direct>>
    /\ UNCHANGED <<questions, qi, doctext, download>>
    /\ UNCHANGED <<splitVars, indexVars, httpVars>>

\* line 84: asyncio.sleep(1), then the next element of the for loop
HackrxDelay ==
    /\ hpc = "delay"
    /\ qi' = qi + 1
    /\ hpc' = "loop"
    /\ trace' = Append(trace, [e |-> "delay", q |-> qi])
    /\ UNCHANGED <<questions, answers, doctext, download, response>>
    /\ UNCHANGED <<genVars, splitVars, indexVars, httpVars>>

----------------------------------------------------------------------------
(* vector_db.py: VectorDatabase._split_text *)

Terminators == {".", "!", "?"}
SnapWindow  == 100

DefaultChunkSize == 1000
DefaultOverlap   == 200

Max(a, b) == IF a >= b THEN a ELSE b
Min(a, b) == IF a <= b THEN a ELSE b

\* the largest position p in lo..hi (0 <= lo) with text[p] in '.!?', or -1;
\* found run by run from the last run (k-th run, which ends before endpos)
RECURSIVE LastTermRun(_, _, _, _, _)
LastTermRun(s, k, endpos, lo, hi) ==
    IF k = 0 THEN -1
    ELSE LET a   == endpos - s[k].n
             top == Min(endpos - 1, hi)
         IN  IF s[k].c \in Terminators /\ Max(a, lo) <= top THEN top
             ELSE IF a <= lo THEN -1
             ELSE LastTermRun(s, k - 1, a, lo, hi)

LastTerminator(text, lo, hi) == LastTermRun(text, Len(text), StrLen(text), lo, hi)

\* lines 122-125: for i in range(end, max(start, end - 100), -1), the loop
\* stopping at the first i with text[i] in '.!?'. The i >= 0 of the range
\* come first (all below len(text), as end < len(text)); the i < 0, if any,
\* are read by Python from the end of the text, text[len + i], and raise
\* IndexError below -len. [ok, end]: ok is FALSE on IndexError.
Snap(text, stop, end) ==
    LET n   == StrLen(text)
        hit == LastTerminator(text, Max(stop + 1, 0), end)
        neg == IF stop + 1 < 0 THEN LastTerminator(text, Max(n + stop + 1, 0), n - 1)
               ELSE -1
    IN  IF hit # -1 THEN [ok |-> TRUE, end |-> hit + 1]
        ELSE IF neg # -1 THEN [ok |-> TRUE, end |-> neg - n + 1]
        ELSE IF n + stop + 1 < 0 THEN [ok |-> FALSE, end |-> end]
        ELSE [ok |-> TRUE, end |-> end]

\* a scan that goes all the way down to the window start
WindowEndScanToStart(text, chunk_size, st) ==
    LET end == st + chunk_size
    IN  IF end < StrLen(text)
        THEN Snap(text, st, end)
        ELSE [ok |-> TRUE, end |-> end]

\* lines 117-125: the end of the window that starts at st
WindowEnd(text, chunk_size, st) ==
    LET end == st + chunk_size
    IN  IF end < StrLen(text)
        THEN Snap(text, Max(st, end - SnapWindow), end)
        ELSE [ok |-> TRUE, end |-> end]

\* the test with the boundary left out
IsShortStrict(text, chunk_size) == StrLen(text) < chunk_size

\* line 110
IsShort(text, chunk_size) == StrLen(text) <= chunk_size

\* lines 127-129: the chunk taken from text[st:end], as a sequence of 0 or 1
ChunkOf(text, st, end) ==
    LET chunk == Strip(PySlice(text, st, end))
    IN  IF chunk # <<>> THEN <<chunk>> ELSE <<>>

\* the positions of the text that ChunkOf(text, st, end) holds
SpanOf(text, st, end) ==
    LET raw == PySlice(text, st, end)
        lo  == PyIndex(text, st) + (StrLen(raw) - StrLen(LStrip(raw)))
    IN  IF Strip(raw) # <<>> THEN <<<<lo, lo + StrLen(Strip(raw))>>>> ELSE <<>>

\* bounds of the inputs
MaxRuns  == 4
MaxIters == 16

Chars == {"a", ".", " "}
BigRuns   == {Rep(c, n) : c \in Chars, n \in {1, 800, 998}}
SmallRuns == {Rep(c, n) : c \in Chars, n \in {1, 2}}

RECURSIVE TextsOf(_, _)
TextsOf(R, k) ==
    IF k = 0 THEN {<<>>}
    ELSE LET shorter == TextsOf(R, k - 1)
         IN  shorter \cup {Cat(t, r) : t \in shorter, r \in R}

BigTexts   == TextsOf(BigRuns, MaxRuns)
SmallTexts == TextsOf(SmallRuns, MaxRuns)

SmallParams == {<<4, 1>>, <<2, 0>>}

\* the smallest chunk_size whose scan is not cut short by `start`, with the
\* largest overlap that still lets the window advance, and with none
TightRuns   == {Rep(c, n) : c \in Chars, n \in {1, 99}}
TightTexts  == TextsOf(TightRuns, MaxRuns)
TightParams == {<<100, 1>>, <<100, 0>>}

\* lines 108-114: entry of _split_text(text, chunk_size, overlap)
SplitEnter(text, chunk_size, overlap) ==
    /\ sargs' = [text |-> text, chunk_size |-> chunk_size, overlap |-> overlap]
    /\ start' = 0
    /\ iters' = 0
    /\ windows' = <<>>
    /\ spans' = <<>>
    /\ IF IsShort(text, chunk_size)
       THEN spc' = "returned" /\ chunks' = <<text>>
       ELSE spc' = "loop" /\ chunks' = <<>>
    /\ UNCHANGED <<genVars, batchVars, indexVars, httpVars>>

\* the call as add_document makes it
SplitDefault ==
    /\ spc = "idle"
    /\ \E t \in BigTexts \cup SmallTexts : SplitEnter(t, DefaultChunkSize, DefaultOverlap)

\* the call with other values of the parameters
SplitSmall ==
    /\ spc = "idle"
    /\ \E t \in SmallTexts, p \in SmallParams : SplitEnter(t, p[1], p[2])

\* the call with chunk_size = 100
SplitTight ==
    /\ spc = "idle"
    /\ \E t \in TightTexts, p \in TightParams : SplitEnter(t, p[1], p[2])

\* a step that adds the overlap instead of taking it off
NextStartForward(end, overlap) == end + overlap

\* line 132: start = end - overlap
NextStart(end, overlap) == end - overlap

\* lines 116-134: one iteration of the while loop
SplitIter ==
    /\ spc = "loop"
    /\ iters < MaxIters
    /\ \E w \in {WindowEnd(sargs.text, sargs.chunk_size, start)} :
          IF ~w.ok
          THEN /\ spc' = "raised"
               /\ UNCHANGED <<start, chunks, windows, spans>>
          ELSE /\ chunks' = chunks \o ChunkOf(sargs.text, start, w.end)
               /\ spans' = spans \o SpanOf(sargs.text, start, w.end)
               /\ windows' = Append(windows, <<start, w.end>>)
               /\ start' = NextStart(w.end, sargs.overlap)
               /\ spc' = IF NextStart(w.end, sargs.overlap) >= StrLen(sargs.text)
                         THEN "returned" ELSE "loop"
    /\ iters' = iters + 1
    /\ UNCHANGED sargs
    /\ UNCHANGED <<genVars, batchVars, indexVars, httpVars>>

\* lines 108-136: _split_text(text, chunk_size, overlap) as one computation
\* (the while loop from `start` = st on, with the chunks collected so far)
RECURSIVE SplitLoop(_, _, _, _, _, _)
SplitLoop(text, chunk_size, overlap, st, acc, fuel) ==
    IF st >= StrLen(text) \/ fuel = 0 THEN acc
    ELSE LET w == WindowEnd(text, chunk_size, st)
         IN  SplitLoop(text, chunk_size, overlap, NextStart(w.end, overlap),
                       acc \o ChunkOf(text, st, w.end), fuel - 1)

split_text(text, chunk_size, overlap) ==
    IF IsShort(text, chunk_size) THEN <<text>>
    ELSE SplitLoop(text, chunk_size, overlap, 0, <<>>, MaxIters)

----------------------------------------------------------------------------
(* vector_db.py: VectorDatabase.add_document *)

\* bound on the number of add_document calls
MaxDocs == 3

DocTexts ==
    { <<>>,
      Rep("a", 998),
      Cat(Cat(Rep("a", 800), Rep(".", 1)), Rep("a", 800)),
      Cat(Cat(Rep("a", 998), Rep(" ", 800)), Rep("a", 998)),
      Rep(" ", 1798) }

NoAdd == [called |-> FALSE, n |-> 0, raised |-> FALSE, returned |-> {},
          created |-> 0, before |-> 0]

\* line 34: one fresh uuid4 per chunk
FreshIds(k) == [i \in 1..k |-> nextId + i - 1]

\* lines 25-45: add_document(text, metadata). With no chunk at all there is
\* no ids[0] to return (and ChromaDB refuses an empty batch): the call raises
\* and nothing is stored.
AddDocument ==
    /\ lastAdd.n < MaxDocs
    /\ \E text \in DocTexts :
          LET cs  == split_text(text, DefaultChunkSize, DefaultOverlap)
              ids == FreshIds(Len(cs))
          IN  IF cs = <<>>
              THEN /\ lastAdd' = [called |-> TRUE, n |-> lastAdd.n + 1, raised |-> TRUE,
                                  returned |-> {}, created |-> 0,
                                  before |-> Len(collection)]
                   /\ UNCHANGED <<collection, nextId>>
              ELSE /\ collection' = collection \o
                          [i \in 1..Len(cs) |-> [id |-> ids[i], document |-> cs[i]]]
                   /\ nextId' = nextId + Len(cs)
                   /\ lastAdd' = [called |-> TRUE, n |-> lastAdd.n + 1, raised |-> FALSE,
                                  returned |-> {ids[1]}, created |-> Len(cs),
                                  before |-> Len(collection)]
    /\ UNCHANGED <<lastDelete, lastSearch>>
    /\ UNCHANGED <<genVars, batchVars, splitVars, httpVars>>

----------------------------------------------------------------------------
(* vector_db.py: VectorDatabase.delete_document, and its endpoint in main.py *)

NoDelete == [called |-> FALSE, id |-> 0, present |-> FALSE, returned |-> FALSE,
             status |-> 0, before |-> <<>>]

Ids(coll) == {coll[i].id : i \in 1..Len(coll)}

\* collection.delete(ids=[doc_id]): ChromaDB removes the entries that carry
\* one of the ids and does not complain about an id it does not hold
Without(coll, id) == SelectSeq(coll, LAMBDA e : e.id # id)

\* vector_db.py lines 83-90: delete_document(doc_id) when the storage call
\* goes as `storage` (ok, or error: it raised); the value returned and the
\* collection afterwards
delete_document(coll, id, storage) ==
    IF storage = "ok"
    THEN [returned |-> TRUE, collection |-> Without(coll, id)]
    ELSE [returned |-> FALSE, collection |-> coll]

\* main.py lines 179-186: the status the endpoint answers with; the
\* HTTPException(404) of line 184 is raised inside the try block and is an
\* Exception, so the except clause of line 185 turns it into a 500
DeleteStatus(success) == IF success THEN 200 ELSE 500

\* main.py lines 176-186: DELETE /vector/document/{doc_id}
DeleteEndpoint ==
    /\ \E id \in 1..nextId, storage \in {"ok", "error"} :
          LET r == delete_document(collection, id, storage)
          IN  /\ collection' = r.collection
              /\ lastDelete' = [called |-> TRUE, id |-> id,
                                present |-> id \in Ids(collection),
                                returned |-> r.returned,
                                status |-> DeleteStatus(r.returned),
                                before |-> collection]
    /\ UNCHANGED <<nextId, lastAdd, lastSearch>>
    /\ UNCHANGED <<genVars, batchVars, splitVars, httpVars>>

----------------------------------------------------------------------------
(* main.py: hybrid_search, over vector_db.py: search_similar *)

\* bounds: short documents added, and n_results of a request
MaxStored  == 2
MaxResults == 2

\* documents short enough to be stored as one chunk
ShortDocTexts == { <<>>, Rep(" ", 1), Rep("a", 1) }

\* vector_db.py lines 25-45: add_document on a short text
AddShort ==
    /\ lastAdd.n < MaxStored
    /\ \E text \in ShortDocTexts :
          LET cs  == split_text(text, DefaultChunkSize, DefaultOverlap)
              ids == FreshIds(Len(cs))
          IN  /\ collection' = collection \o
                     [i \in 1..Len(cs) |-> [id |-> ids[i], document |-> cs[i]]]
              /\ nextId' = nextId + Len(cs)
              /\ lastAdd' = [called |-> TRUE, n |-> lastAdd.n + 1, raised |-> FALSE,
                             returned |-> {ids[1]}, created |-> Len(cs),
                             before |-> Len(collection)]
    /\ UNCHANGED <<lastDelete, lastSearch>>
    /\ UNCHANGED <<genVars, batchVars, splitVars, httpVars>>

\* distances in hundredths: 0.79, 0.80, 0.81
Distances == {79, 80, 81}
\* main.py line 321: the threshold 0.8, in hundredths
RelevanceThreshold == 80

NoRelevant == "No relevant documents found in the database."

SearchQueries  == { <<>>, Rep("a", 1) }
SearchOutcomes == {"ok", "timeout", "null_candidates"}

\* vector_db.py lines 47-68: what search_similar(query, n) can return: at most
\* n distinct entries of the collection, nearest first
Injective(p) == \A i, j \in 1..Len(p) : i # j => p[i] # p[j]
Ascending(d) == \A i, j \in 1..Len(d) : i < j => d[i] <= d[j]
SearchResults(coll, n) ==
    LET k == Min(n, Len(coll))
    IN  { [i \in 1..k |-> [document |-> coll[p[i]].document, distance |-> d[i]]] :
            p \in {q \in [1..k -> 1..Len(coll)] : Injective(q)},
            d \in {e \in [1..k -> Distances] : Ascending(e)} }

\* a filter that lets the threshold itself through
IsRelevantInclusive(hit) == hit.distance <= RelevanceThreshold

\* main.py line 321
IsRelevant(hit) == hit.distance < RelevanceThreshold

\* main.py lines 319-322: context_parts
ContextParts(results) ==
    LET kept == SelectSeq(results, IsRelevant)
    IN  [i \in 1..Len(kept) |-> kept[i].document]

\* sep.join(parts)
RECURSIVE Join(_, _)
Join(sep, parts) ==
    IF parts = <<>> THEN <<>>
    ELSE IF Len(parts) = 1 THEN parts[1]
    ELSE Cat(parts[1], Cat(sep, Join(sep, Tail(parts))))

ParagraphBreak == Rep("\n", 2)

NoSearch == [called |-> FALSE, query |-> <<>>, results |-> <<>>, passed |-> <<>>,
             posts |-> 0, status |-> 0, answer |-> ""]

\* main.py lines 311-339: the handler on the results of search_similar, with
\* the backend answering o: the contexts handed to answer_question, the POSTs
\* made, and the response
hybrid_search(results, query, o) ==
    LET combined_context == Join(ParagraphBreak, ContextParts(results))
    IN  IF combined_context # <<>>
        THEN LET r == answer_question(combined_context, query, o)
             IN  [passed |-> <<combined_context>>, posts |-> r.posts,
                  status |-> IF r.res.tag = "raise" THEN 500 ELSE 200,
                  answer |-> IF r.res.tag = "raise" THEN "" ELSE r.res.val]
        ELSE [passed |-> <<>>, posts |-> 0, status |-> 200, answer |-> NoRelevant]

\* POST /hybrid/search
HybridSearch ==
    \E query \in SearchQueries, n \in 1..MaxResults, o \in SearchOutcomes :
      \E results \in SearchResults(collection, n) :
        \E h \in {hybrid_search(results, query, o)} :
          /\ lastSearch' = [called |-> TRUE, query |-> query, results |-> results,
                            passed |-> h.passed, posts |-> h.posts,
                            status |-> h.status, answer |-> h.answer]
          /\ UNCHANGED <<collection, nextId, lastAdd, lastDelete>>
          /\ UNCHANGED <<genVars, batchVars, splitVars, httpVars>>

----------------------------------------------------------------------------
(* main.py: the HTTP surface, verify_token and the fine-tune endpoints *)

\* line 51: API_KEY, by default
API_KEY == "hack"

\* An Authorization header is the list auth.split(" ") of the header sent,
\* or <<>> when the request carries none: "Bearer hack" is <<"Bearer", "hack">>, the empty header is
\* <<"">>, "Bearer " is <<"Bearer", "">>.
Headers ==
    { <<>>,
      <<"">>,
      <<"Bearer">>,
      <<"Bearer", "">>,
      <<"Bearer", "hack">>,
      <<"Bearer", "wrong">>,
      <<"Basic", "hack">>,
      <<"bearer", "hack">>,
      <<"Bearer", "hack", "extra">>,
      <<"Bearer", "", "hack">> }

\* auth.startswith("Bearer "): the first word is Bearer and a space follows
StartsWithBearer(auth) == Len(auth) >= 2 /\ auth[1] = "Bearer"

\* lines 53-59: verify_token; 0 when it returns without raising
verify_token(auth) ==
    IF auth = <<>> THEN 401
    ELSE IF auth = <<"">> \/ ~StartsWithBearer(auth) THEN 401
    ELSE IF auth[2] # API_KEY THEN 403
    ELSE 0

\* the endpoints of the claim, and the one declared with Depends(verify_token)
Endpoints ==
    {"hackrx_run", "upload", "ask", "simulate", "vector_search",
     "vector_documents", "vector_stats", "vector_delete", "hybrid_search"}
Authenticated == {"hackrx_run"}

GenerateEndpoints == {"generate_get", "generate_post"}

NoRequest == [called |-> FALSE, endpoint |-> "", header |-> <<>>,
              status |-> 0, ran |-> FALSE, model |-> "none"]

\* what FastAPI does with a request: the dependency first, where declared,
\* and then the handler, whose operation goes as `outcome`
Dispatch(endpoint, auth, outcome) ==
    LET denied == IF endpoint \in Authenticated THEN verify_token(auth) ELSE 0
    IN  IF denied # 0
        THEN [status |-> denied, ran |-> FALSE]
        ELSE [status |-> IF outcome = "ok" THEN 200 ELSE 500, ran |-> TRUE]

\* a request to one of the endpoints
HttpRequest ==
    /\ \E endpoint \in Endpoints, auth \in Headers, outcome \in {"ok", "error"} :
          LET d == Dispatch(endpoint, auth, outcome)
          IN  http' = [called |-> TRUE, endpoint |-> endpoint, header |-> auth,
                       status |-> d.status, ran |-> d.ran, model |-> tuner]
    /\ UNCHANGED tuner
    /\ UNCHANGED <<genVars, batchVars, splitVars, indexVars>>

\* lines 240-270: GET and POST /fine-tune/generate. The HTTPException(400) of
\* lines 244 and 260 is raised inside the try block and is an Exception, so
\* the except clause of lines 253 and 269 answers 500 in its place.
GenerateStatus(model, outcome) ==
    IF model = "none" THEN 500
    ELSE IF outcome = "ok" THEN 200 ELSE 500

FineTuneGenerate ==
    /\ \E endpoint \in GenerateEndpoints, auth \in Headers, outcome \in {"ok", "error"} :
          http' = [called |-> TRUE, endpoint |-> endpoint, header |-> auth,
                   status |-> GenerateStatus(tuner, outcome),
                   ran |-> tuner # "none", model |-> tuner]
    /\ UNCHANGED tuner
    /\ UNCHANGED <<genVars, batchVars, splitVars, indexVars>>

\* POST /fine-tune/load (and /fine-tune/train): fine_tuner.model is set when
\* the loading succeeds
FineTuneLoad ==
    /\ \E auth \in Headers, outcome \in {"ok", "error"} :
          /\ tuner' = IF outcome = "ok" THEN "loaded" ELSE tuner
          /\ http' = [called |-> TRUE, endpoint |-> "load", header |-> auth,
                      status |-> IF outcome = "ok" THEN 200 ELSE 500,
                      ran |-> TRUE, model |-> tuner]
    /\ UNCHANGED <<genVars, batchVars, splitVars, indexVars>>

----------------------------------------------------------------------------
Init ==
    /\ pc = "idle" /\ args = NoArgs /\ attempt = 0 /\ backoff = 0
    /\ sleeps = <<>> /\ posts = 0 /\ tries = 0 /\ backend = <<>> /\ result = Return("")
    /\ sent = <<>> /\ direct = NoCall
    /\ hpc = "idle" /\ questions = <<>> /\ qi = 0 /\ answers = <<>>
    /\ doctext = <<>> /\ download = "none" /\ response = NoResponse /\ trace = <<>>
    /\ spc = "idle" /\ sargs = [text |-> <<>>, chunk_size |-> 0, overlap |-> 0]
    /\ start = 0 /\ chunks = <<>> /\ windows = <<>> /\ spans = <<>> /\ iters = 0
    /\ collection = <<>> /\ nextId = 1
    /\ lastAdd = NoAdd /\ lastDelete = NoDelete /\ lastSearch = NoSearch
    /\ tuner = "none" /\ http = NoRequest

\* the generation client and the retry loop, against a scripted mock backend
NextGen == GeminiDirect \/ RetryStart \/ AttemptScripted \/ LoopExhausted \/ BackoffSleep
SpecGen == Init /\ [][NextGen]_vars

\* the batch endpoint, against any backend
NextBatch ==
    HackrxRun \/ HackrxLoop \/ AttemptAny \/ BackoffSleep \/ HackrxAppend \/ HackrxDelay
SpecBatch == Init /\ [][NextBatch]_vars

\* the chunker
NextSplit == SplitDefault \/ SplitSmall \/ SplitTight \/ SplitIter
SpecSplit == Init /\ [][NextSplit]_vars

\* the vector index
NextIndex == AddDocument
SpecIndex == Init /\ [][NextIndex]_vars

\* retrieval and generation over an index of short documents
NextSearch == AddShort \/ HybridSearch
SpecSearch == Init /\ [][NextSearch]_vars

\* deletion from an index of short documents
NextDelete == AddShort \/ DeleteEndpoint
SpecDelete == Init /\ [][NextDelete]_vars

\* the HTTP surface: who may call what, and the status answered
NextHttp == HttpRequest \/ FineTuneGenerate \/ FineTuneLoad
SpecHttp == Init /\ [][NextHttp]_vars

----------------------------------------------------------------------------
(* Properties of the generation path *)

\* the run was given a context and a question, so that it reaches gemini_call
ValidInputs == args.context # <<>> /\ args.question # <<>>

StandaloneReturned == pc = "returned" /\ hpc = "idle"

AllWhitespace(s) == \A i \in 1..Len(s) : s[i].c \in Whitespace

\* C1: when the backend fails twice with a retryable error and then succeeds,
\* the run returns the success text after exactly 3 POSTs, having slept 2 s
\* and then 4 s.
C1_TwoFailuresThenSuccess ==
    ( /\ StandaloneReturned
      /\ ValidInputs
      /\ args.max_retries = DefaultMaxRetries
      /\ backend[1] \in RetryableFailures
      /\ backend[2] \in RetryableFailures
      /\ backend[3] = "ok" )
    => ( /\ result = Return(GeneratedText)
         /\ posts = 3
         /\ sleeps = <<2, 4>> )

\* C2: when the backend fails retryably on every invocation, the run makes
\* exactly max_retries POSTs, then returns a failure string, and raises nothing.
C2_AlwaysFailing ==
    ( /\ StandaloneReturned
      /\ ValidInputs
      /\ args.max_retries >= 1
      /\ \A i \in 1..Len(backend) : backend[i] \in RetryableFailures )
    => ( /\ posts = args.max_retries
         /\ result.tag = "return"
         /\ result.val \in {ErrRequest, SentinelFailed} )

\* C3: for an empty or whitespace-only prompt gemini_call returns the
\* validation failure and makes no POST.
C3_BlankPromptNoBackend ==
    (direct.called /\ AllWhitespace(direct.prompt))
    => ( /\ direct.res = Return(ErrEmptyPrompt)
         /\ direct.posts = 0
         /\ direct.sent = <<>> )

C3_Witness ==
    /\ direct.called
    /\ direct.prompt # <<>>
    /\ AllWhitespace(direct.prompt)
    /\ direct.outcome = "ok"
    /\ direct.posts = 0

\* C4: whatever body comes back with a success status, gemini_call returns a
\* failure value; no deviation from the expected shape leaves it as an exception.
C4_NoShapeEscapes ==
    (direct.called /\ direct.posts = 1 /\ direct.outcome \in DeviantBodies)
    => ( /\ direct.res.tag = "return"
         /\ direct.res.val \in {ErrFormat, ErrRequest} )

\* C5: a batch whose document was downloaded and extracted is answered with
\* exactly one entry per question, entry i belonging to question i (it is the
\* missing-input message exactly when question i or the document is empty);
\* while the batch runs, one answer has been recorded per question passed.
C5_OneAnswerPerQuestion ==
    /\ (download = "ok" /\ hpc \in {"loop", "awaiting"}) => Len(answers) = qi - 1
    /\ (download = "ok" /\ hpc = "delay") => Len(answers) = qi
    /\ (download = "ok" /\ hpc = "responded")
       => ( /\ response.status = 200
            /\ Len(response.answers) = Len(questions)
            /\ \A i \in 1..Len(questions) :
                  (response.answers[i] = ErrRequired)
                  <=> (questions[i] = <<>> \/ doctext = <<>>) )

C5_Witness ==
    /\ hpc = "responded"
    /\ download = "ok"
    /\ Len(questions) = 2
    /\ response.status = 200
    /\ response.answers[1] = SentinelFailed
    /\ response.answers[2] = GeneratedText

\* C6: every prompt transmitted by answer_question ends with the question
\* header, the whole stripped question and the answer instruction.
C6_QuestionNeverTruncated ==
    (hpc = "idle" /\ pc \in {"sleep", "returned"})
    => \A i \in 1..Len(sent) :
          EndsWith(sent[i],
                   Cat(Cat(QuestionHeader, Strip(args.question)), AnswerInstruction))

----------------------------------------------------------------------------
(* Properties of the chunker and of ingestion *)

SplitReturned == spc = "returned"

\* C7: a text no longer than chunk_size comes back as the one chunk [text],
\* unmodified.
C7_ShortTextOneChunk ==
    (SplitReturned /\ StrLen(sargs.text) <= sargs.chunk_size) => chunks = <<sargs.text>>

C7_Witness ==
    /\ SplitReturned
    /\ sargs.text # <<>>
    /\ AllWhitespace(sargs.text)
    /\ StrLen(sargs.text) = sargs.chunk_size
    /\ chunks = <<sargs.text>>

\* a chunk that is one sentence: no terminator followed by whitespace inside it
OneSentence(chunk) ==
    \A i \in 1..(Len(chunk) - 1) :
        ~(chunk[i].c \in Terminators /\ chunk[i + 1].c \in Whitespace)

\* C8: no chunk is longer than chunk_size, unless it is a single sentence
\* that is itself longer than chunk_size.
C8_ChunkSizeBound ==
    SplitReturned
    => \A i \in 1..Len(chunks) :
          StrLen(chunks[i]) <= sargs.chunk_size \/ OneSentence(chunks[i])

\* the number of positions of the text that two chunks both hold
Shared(a, b) == Max(0, Min(a[2], b[2]) - Max(a[1], b[1]))

\* C9: with overlap > 0 and a text longer than chunk_size, every two
\* consecutive chunks share at least overlap - e characters, e the reach of the
\* sentence snap.
C9_ConsecutiveOverlap ==
    (SplitReturned /\ sargs.overlap > 0 /\ StrLen(sargs.text) > sargs.chunk_size)
    => \A i \in 1..(Len(spans) - 1) :
          Shared(spans[i], spans[i + 1]) >= sargs.overlap - SnapWindow

\* C10: add_document returns one identifier per entry it created, so that
\* deleting the returned identifiers brings the count back to what it was.
C10_IdPerChunk ==
    (lastAdd.called /\ ~lastAdd.raised)
    => ( /\ Cardinality(lastAdd.returned) = lastAdd.created
         /\ Len(SelectSeq(collection, LAMBDA e : e.id \notin lastAdd.returned))
               = lastAdd.before )


\* C11: deleting an identifier that is not in the index reports not-found
\* (delete_document returns False, the endpoint answers 404) and leaves the
\* index unchanged; deleting one that is in the index reports success and
\* removes exactly that entry.
C11_DeleteReportsNotFound ==
    lastDelete.called
    => IF lastDelete.present
       THEN /\ lastDelete.returned
            /\ lastDelete.status = 200
            /\ collection = Without(lastDelete.before, lastDelete.id)
            /\ Len(collection) = Len(lastDelete.before) - 1
       ELSE /\ ~lastDelete.returned
            /\ lastDelete.status = 404
            /\ collection = lastDelete.before


\* the positions of the results of the last search that are nearer than 0.8
Nearer == {i \in 1..Len(lastSearch.results) : lastSearch.results[i].distance < 80}
NthNearer(k) == CHOOSE i \in Nearer : Cardinality({j \in Nearer : j < i}) = k - 1

\* C12: in hybrid search the context handed to generation is exactly the
\* texts of the results whose distance is strictly below 0.8, in retrieval
\* order (joined by blank lines); and when no result passes the filter the
\* backend is not invoked and the answer is the fixed message.
C12_ContextIsNearResults ==
    lastSearch.called
    => /\ Len(lastSearch.passed) <= 1
       /\ \A c \in 1..Len(lastSearch.passed) :
             lastSearch.passed[c] =
                 Join(Rep("\n", 2),
                      [k \in 1..Cardinality(Nearer) |->
                           lastSearch.results[NthNearer(k)].document])
       /\ Nearer = {} => /\ lastSearch.passed = <<>>
                         /\ lastSearch.posts = 0
                         /\ lastSearch.status = 200
                         /\ lastSearch.answer = NoRelevant

\* a search in which one result passed the filter, one at exactly 0.8 did
\* not, and the backend was called
C12_Witness ==
    /\ lastSearch.called
    /\ lastSearch.posts = 1
    /\ Nearer # {}
    /\ \E i \in 1..Len(lastSearch.results) : lastSearch.results[i].distance = 80


\* C13: a request to GET or POST /fine-tune/generate made while no
\* fine-tuned model is loaded is answered with status 400.
C13_GenerateWithoutModel400 ==
    ( /\ http.called
      /\ http.endpoint \in GenerateEndpoints
      /\ http.model = "none" )
    => http.status = 400

\* C14: an endpoint performs its operation only for a request whose
\* Authorization header is exactly "Bearer " followed by the secret; a
\* missing or malformed header yields 401 and another token 403, and in
\* neither case does the operation run.
C14_EveryEndpointAuthenticated ==
    ( http.called /\ http.endpoint \in Endpoints )
    => IF http.header = <<"Bearer", API_KEY>>
       THEN TRUE
       ELSE /\ ~http.ran
            /\ http.status =
                 IF ~StartsWithBearer(http.header)
                 THEN 401 ELSE 403


\* the number of events of kind e among the first k of the trace
Count(e, k) == Cardinality({j \in 1..k : trace[j].e = e})

\* C15: within one batch request the questions are processed in list order
\* and one at a time: every attempt for question i is made when the answers
\* of questions 1..i-1, and no others, have been recorded and the delay after
\* each of them has elapsed, and nothing for a later question has happened.
C15_StrictlySequential ==
    \A k \in 1..Len(trace) :
        /\ trace[k].e = "attempt"
           => /\ Count("answer", k - 1) = trace[k].q - 1
              /\ Count("delay", k - 1) = trace[k].q - 1
              /\ \A j \in 1..(k - 1) : trace[j].e = "answer" => trace[j].q < trace[k].q
        /\ \A j \in 1..(k - 1) : trace[j].q <= trace[k].q
        /\ trace[k].q \in 1..Len(questions)

\* the second question of a batch is being attempted
C15_Witness ==
    /\ Len(trace) > 0
    /\ trace[Len(trace)].e = "attempt"
    /\ trace[Len(trace)].q = 2


RECURSIVE Pow2(_)
Pow2(i) == IF i = 0 THEN 1 ELSE 2 * Pow2(i - 1)

\* what C16 and its amendment have in common: at most max_retries attempts,
\* sleeps of 2 s, 4 s, 8 s, ..., a sleep only when another attempt follows,
\* and a run that ends by returning a string
RetryDiscipline ==
    /\ tries <= args.max_retries
    /\ \A i \in 1..Len(sleeps) : sleeps[i] = Pow2(i)
    /\ pc = "sleep" => tries < args.max_retries
    /\ pc = "returned" => result.tag = "return"

\* C16 as stated: for every max_retries >= 0 the run makes at most
\* max_retries attempts, sleeps 2 s, 4 s, 8 s, ..., the number of sleeps is
\* exactly the number of attempts minus one, no sleep follows the final
\* attempt, and the run ends by returning a string.
C16_SleepsAreAttemptsMinusOne ==
    pc \in {"attempt", "sleep", "returned"}
    => /\ RetryDiscipline
       /\ pc = "returned" => Len(sleeps) = tries - 1

\* how far a run is from its return: every step of a run lowers it
StepsLeft ==
    CASE pc = "attempt" -> 2 * (args.max_retries + 1 - attempt) + 2
      [] pc = "sleep"   -> 2 * (args.max_retries + 1 - attempt) + 1
      [] OTHER          -> 0

AmendedCount ==
    pc \in {"attempt", "sleep", "returned"}
    => /\ RetryDiscipline
       /\ StepsLeft >= 0
       /\ pc = "returned"
          => IF tries >= 1
             THEN Len(sleeps) = tries - 1
             ELSE /\ args.max_retries = 0
                  /\ sleeps = <<>>
                  /\ result = Return(SentinelUnknown)

\* C16 amended: as stated, but the number of sleeps is the number of attempts
\* minus one only when an attempt was made; with max_retries = 0 the run
\* makes no attempt and no sleep and returns the unknown-error sentinel.
\* The run always ends: each of its steps brings the return nearer.
C16_RetryDiscipline ==
    /\ []AmendedCount
    /\ [][(pc \in {"attempt", "sleep"}) => (StepsLeft' < StepsLeft)]_vars

\* a run that slept twice and returned after its third attempt
C16_Witness ==
    /\ pc = "returned"
    /\ tries = 3
    /\ sleeps = <<2, 4>>


\* the parameters for which the scan for a sentence end cannot take the
\* window start backwards
SafeParams ==
    /\ sargs.chunk_size >= 100
    /\ 0 <= sargs.overlap
    /\ sargs.overlap <= sargs.chunk_size - 99

\* C17: with chunk_size >= 100 and 0 <= overlap <= chunk_size - 99,
\* _split_text terminates on every text: the window start is never negative
\* and is larger in every iteration than in the one before, the scan never
\* reads outside the text, and the loop is over before the text's length in
\* iterations.
C17_StartStrictlyIncreases ==
    (spc # "idle" /\ SafeParams)
    => /\ spc # "raised"
       /\ \A i \in 1..Len(windows) : windows[i][1] >= 0
       /\ \A i \in 1..(Len(windows) - 1) : windows[i + 1][1] > windows[i][1]
       /\ spc = "loop"
          => /\ start >= 0
             /\ start < StrLen(sargs.text)
             /\ windows # <<>> => start > windows[Len(windows)][1]
             /\ iters < MaxIters
       /\ iters = Len(windows)
       /\ iters <= StrLen(sargs.text)

\* a run under these parameters in which a window started one character
\* after the one before
C17_Witness ==
    /\ spc = "returned"
    /\ SafeParams
    /\ \E i \in 1..(Len(windows) - 1) : windows[i + 1][1] = windows[i][1] + 1

\* position p of the text is held by an emitted chunk
Held(p) == \E j \in 1..Len(spans) : spans[j][1] <= p /\ p < spans[j][2]

\* the <<first, past-last>> positions of the runs of the text that are not
\* whitespace
RECURSIVE InkFrom(_, _, _)
InkFrom(s, k, at) ==
    IF k > Len(s) THEN {}
    ELSE (IF s[k].c \in Whitespace THEN {} ELSE {<<at, at + s[k].n>>})
         \cup InkFrom(s, k + 1, at + s[k].n)

\* every position of lo..hi-1 is held by a chunk: the first is, and so is
\* every position of the range at which a chunk ends
AllHeld(lo, hi) ==
    /\ Held(lo)
    /\ \A j \in 1..Len(spans) : (lo <= spans[j][2] /\ spans[j][2] < hi) => Held(spans[j][2])

\* C18: for len(text) > chunk_size and overlap >= 0, under the termination
\* precondition, the windows cover the text without gaps: the first starts
\* at 0, each next one starts at or before the end of the one before, the
\* last reaches len(text); and every non-whitespace character of the text is
\* in an emitted chunk.
C18_WindowsCoverText ==
    ( /\ spc = "returned"
      /\ SafeParams
      /\ StrLen(sargs.text) > sargs.chunk_size )
    => /\ windows # <<>>
       /\ windows[1][1] = 0
       /\ \A i \in 1..(Len(windows) - 1) : windows[i + 1][1] <= windows[i][2]
       /\ windows[Len(windows)][2] >= StrLen(sargs.text)
       /\ \A r \in InkFrom(sargs.text, 1, 0) : AllHeld(r[1], r[2])

\* a text split with the default parameters into three chunks or more, one
\* window cut at a sentence end, with whitespace dropped from a chunk
C18_Witness ==
    /\ spc = "returned"
    /\ sargs.chunk_size = DefaultChunkSize /\ sargs.overlap = DefaultOverlap
    /\ StrLen(sargs.text) > sargs.chunk_size
    /\ Len(spans) >= 3
    /\ \E i \in 1..Len(windows) : windows[i][2] < windows[i][1] + sargs.chunk_size
    /\ \E r \in InkFrom(sargs.text, 1, 0) : r[1] > 0

====
